---- MODULE Spec2Model ----
(***************************************************************************)
(* A model of the xarray tutorial repository: the two fundamentals         *)
(* notebooks, executed cell by cell in one kernel session each, and the    *)
(* "Pull Request Build" workflow that renders them.                        *)
(*                                                                         *)
(* Spec    the notebook sessions (cells of basic-computation and of the    *)
(*         data-structures notebook, in document order).                   *)
(* SpecCI  the workflow: pull_request events, the concurrency group, the   *)
(*         steps of the preview job.                                       *)
(*                                                                         *)
(* Numbers are exact: a temperature is an integer count of hundredths of   *)
(* a degree, so that 273.15 is 27315, and a mean is the pair (sum, count). *)
(***************************************************************************)
EXTENDS Integers, Sequences, FiniteSets, TLC

VARIABLES
  archive,   \* what the remote dataset archive serves to this session
  nb,        \* the notebook this kernel session executes
  pc,        \* index of the next code cell to execute
  env,       \* the session's namespace: name -> value
  Out,       \* the value displayed by each executed cell
  err,       \* the unhandled error that stopped the session, or "none"
  runs,      \* the workflow runs created so far, oldest first
  pulls,     \* the state of each pull request: "none", "open" or "closed"
  delivered  \* the number of pull_request events delivered so far

nbvars == <<archive, nb, pc, env, Out, err>>
civars == <<runs, pulls, delivered>>
vars == <<archive, nb, pc, env, Out, err, runs, pulls, delivered>>

----------------------------------------------------------------------------
(* Bounds of the model.                                                    *)

\* largest length of a dimension of a dataset served by the archive
MaxLen == 2
\* largest number of missing (NaN) entries of a served array
MaxNaN == 1
\* largest number of pull_request events delivered
MaxEvents == 2

----------------------------------------------------------------------------
(* Floating point values: NaN or a number.                                 *)

NaN == [nan |-> TRUE, val |-> 0]
Num(v) == [nan |-> FALSE, val |-> v]

\* 273.15, in hundredths
KelvinOffset == 27315

\* x + s for a scalar s: NaN stays NaN
AddScalar(x, s) == IF x.nan THEN NaN ELSE Num(x.val + s)

\* numpy.nan_to_num on one element, keyword nan=<fill>
nan_to_num_elem(x, fill) == IF x.nan THEN Num(fill) ELSE x

----------------------------------------------------------------------------
(* Index tuples and sequences.                                             *)

RECURSIVE SeqMax(_)
SeqMax(s) == IF s = <<>> THEN 0
             ELSE LET m == SeqMax(Tail(s)) IN IF Head(s) > m THEN Head(s) ELSE m

\* all index tuples of an array of the given shape (1-based)
Index(shape) ==
  IF shape = <<>> THEN {<<>>}
  ELSE {s \in [1..Len(shape) -> 1..SeqMax(shape)] :
          \A j \in 1..Len(shape) : s[j] <= shape[j]}

Range(s) == {s[i] : i \in 1..Len(s)}

RECURSIVE SetSum(_, _)
\* sum of g[i] over the set S
SetSum(S, g) == IF S = {} THEN 0
                ELSE LET i == CHOOSE j \in S : TRUE
                     IN g[i] + SetSum(S \ {i}, g)

\* the positions 1..Len(dims) whose dimension is not in rdims, ascending
RECURSIVE KeptPositions(_, _, _)
KeptPositions(dims, rdims, j) ==
  IF j > Len(dims) THEN <<>>
  ELSE IF dims[j] \in rdims THEN KeptPositions(dims, rdims, j + 1)
       ELSE <<j>> \o KeptPositions(dims, rdims, j + 1)

----------------------------------------------------------------------------
(* Labelled arrays.                                                        *)

DimNames == {"time", "lat", "lon"}

\* the coordinate labels of a dimension of length n
Labels(d, n) == [i \in 1..n |-> <<d, i>>]

Shape(da) == [j \in 1..Len(da.dims) |-> Len(da.coords[da.dims[j]])]

\* the plain array under a DataArray (.data)
Data(da) == [type |-> "ndarray", shape |-> Shape(da), values |-> da.values]

DataArray(name, dims, coords, values, attrs) ==
  [type |-> "DataArray", name |-> name, dims |-> dims, coords |-> coords,
   values |-> values, attrs |-> attrs]

\* the 1-D coordinate variable of dimension d
CoordArray(d, labels) ==
  DataArray(d, <<d>>, [k \in {d} |-> labels],
            [i \in Index(<<Len(labels)>>) |-> labels[i[1]]], {})

Dataset(data_vars, coords, attrs) ==
  [type |-> "Dataset", data_vars |-> data_vars, coords |-> coords, attrs |-> attrs]

\* names that Dataset and DataArray define themselves (methods and properties
\* used or named by the notebooks); normal attribute lookup finds these first
BuiltinNames ==
  {"mean", "min", "max", "sum", "std", "sel", "isel", "plot",
   "name", "dims", "coords", "attrs", "data", "values"}

KeyError == [type |-> "KeyError"]
AttributeError == [type |-> "AttributeError"]
BoundMethod(obj, name) == [type |-> "method", name |-> name, self |-> obj.type]

\* ds["key"]: the DataArray of a data variable or of a coordinate
GetItem(ds, key) ==
  IF key \in DOMAIN ds.data_vars
  THEN LET v == ds.data_vars[key]
       IN DataArray(key, v.dims, [d \in Range(v.dims) |-> ds.coords[d]],
                    v.values, v.attrs)
  ELSE IF key \in DOMAIN ds.coords
       THEN CoordArray(key, ds.coords[key])
       ELSE KeyError

\* da.coords["key"]
CoordsGetItem(da, key) ==
  IF key \in DOMAIN da.coords THEN CoordArray(key, da.coords[key]) ELSE KeyError

\* attribute lookup in which a held variable shadows the class's own attribute
GetAttr_VariablesFirst(obj, name) ==
  IF obj.type = "Dataset" /\ name \in (DOMAIN obj.data_vars) \cup (DOMAIN obj.coords)
  THEN GetItem(obj, name)
  ELSE IF obj.type = "DataArray" /\ name \in DOMAIN obj.coords
       THEN CoordsGetItem(obj, name)
       ELSE IF name \in BuiltinNames THEN BoundMethod(obj, name) ELSE AttributeError

\* obj.name ("dot notation"): the class's own attributes first, then the
\* variables and coordinates the object holds
GetAttr(obj, name) ==
  IF name \in BuiltinNames THEN BoundMethod(obj, name)
  ELSE IF obj.type = "Dataset"
       THEN IF name \in (DOMAIN obj.data_vars) \cup (DOMAIN obj.coords)
            THEN GetItem(obj, name) ELSE AttributeError
       ELSE IF obj.type = "DataArray" /\ name \in DOMAIN obj.coords
            THEN CoordsGetItem(obj, name) ELSE AttributeError

----------------------------------------------------------------------------
(* Computation on labelled arrays.                                         *)

\* Add as plain array arithmetic would do it: the coordinates are lost
Add_DropsCoords(da, s) ==
  DataArray(da.name, da.dims, [d \in {} |-> <<>>],
            [i \in DOMAIN da.values |-> AddScalar(da.values[i], s)], {})

\* da + s for a scalar s
Add(da, s) ==
  DataArray(da.name, da.dims, da.coords,
            [i \in DOMAIN da.values |-> AddScalar(da.values[i], s)], {})

\* numpy.asarray: a DataArray handed to numpy is read as its plain array
AsArray(x) == IF x.type = "DataArray" THEN Data(x) ELSE x

\* np.nan_to_num(x, nan=fill)
nan_to_num(x, fill) ==
  LET a == AsArray(x)
  IN [type |-> "ndarray", shape |-> a.shape,
      values |-> [i \in DOMAIN a.values |-> nan_to_num_elem(a.values[i], fill)]]

\* apply_ufunc that hands back the function's result without the labels
apply_ufunc_Unwrapped(da, fill) == nan_to_num(Data(da), fill)

\* xr.apply_ufunc(np.nan_to_num, da, kwargs={"nan": fill}): the function is
\* applied to the plain array and the result is wrapped in da's labels
apply_ufunc(da, fill) ==
  LET r == nan_to_num(Data(da), fill)
  IN DataArray(da.name, da.dims, da.coords, r.values, {})

NaNMean == [nan |-> TRUE, sum |-> 0, count |-> 0]

\* the mean over the entries of da selected by cells, NaN skipped
MeanOf(da, cells) ==
  LET valid == {i \in cells : ~da.values[i].nan}
  IN IF valid = {} THEN NaNMean
     ELSE [nan |-> FALSE,
           sum |-> SetSum(valid, [i \in valid |-> da.values[i].val]),
           count |-> Cardinality(valid)]

\* reduce da by mean over the axes (0-based axis numbers) in axes
ReduceAxes(da, axes) ==
  LET rpos == {a + 1 : a \in axes}
      kp == KeptPositions([j \in 1..Len(da.dims) |-> j], rpos, 1)
      newdims == [j \in 1..Len(kp) |-> da.dims[kp[j]]]
      newshape == [j \in 1..Len(kp) |-> Shape(da)[kp[j]]]
  IN DataArray(da.name, newdims, [d \in Range(newdims) |-> da.coords[d]],
       [k \in Index(newshape) |->
          MeanOf(da, {i \in DOMAIN da.values :
                        \A j \in 1..Len(kp) : i[kp[j]] = k[j]})],
       {})

\* get_axis_num that answers with the 1-based position
get_axis_num_OneBased(da, dim) == CHOOSE j \in 1..Len(da.dims) : da.dims[j] = dim

\* da.get_axis_num(dim): the 0-based axis of a dimension name
get_axis_num(da, dim) == (CHOOSE j \in 1..Len(da.dims) : da.dims[j] = dim) - 1

ValueError == [type |-> "ValueError"]

\* mean(axis=) that counts axes from the last one
MeanAxis_FromLast(da, axis) ==
  IF axis \in 0..(Len(da.dims) - 1)
  THEN ReduceAxes(da, {Len(da.dims) - 1 - axis}) ELSE ValueError

\* da.mean(axis=axis)
MeanAxis(da, axis) ==
  IF axis \in 0..(Len(da.dims) - 1) THEN ReduceAxes(da, {axis}) ELSE ValueError

\* da.mean(dim=names), names a set of dimension names
MeanDim(da, names) ==
  IF names \subseteq Range(da.dims)
  THEN ReduceAxes(da, {get_axis_num(da, d) : d \in names})
  ELSE ValueError

\* da.mean(): no dimension given, all are reduced
MeanAll(da) == ReduceAxes(da, 0..(Len(da.dims) - 1))

----------------------------------------------------------------------------
(* The dataset archive (external): what load_dataset can return.           *)

RECURSIVE SubsetsUpTo(_, _)
\* the subsets of S with at most k elements
SubsetsUpTo(S, k) ==
  IF k = 0 THEN {{}}
  ELSE LET P == SubsetsUpTo(S, k - 1)
       IN P \cup {p \cup {x} : p \in P, x \in S}

\* orders in which a served 3-D variable may store its dimensions: the ERSST
\* file stores sst as (time, lat, lon); the content of the archive is not under
\* the repository's control, so the other order is served too
DimOrders == {<<"time", "lat", "lon">>, <<"lat", "lon", "time">>}

\* the value at a grid point, in hundredths of a degree Celsius
Temperature(t, la, lo) == (t - la) * 100 + lo

\* a 3-D variable on the grid given by coords, stored in the order dims,
\* missing at the index tuples in missing
GridVariable(dims, coords, missing) ==
  LET shape == [j \in 1..3 |-> Len(coords[dims[j]])]
      pos(i, d) == i[CHOOSE j \in 1..3 : dims[j] = d]
  IN [dims |-> dims,
      values |-> [i \in Index(shape) |->
                    IF i \in missing THEN NaN
                    ELSE Num(Temperature(pos(i, "time"), pos(i, "lat"), pos(i, "lon")))],
      attrs |-> {<<"units", "degC">>}]

Grids == {[d \in DimNames |-> Labels(d, n[d])] : n \in [DimNames -> 1..MaxLen]}

GridVariables(coords) ==
  UNION {{GridVariable(dims, coords, missing) :
            missing \in SubsetsUpTo(Index([j \in 1..3 |-> Len(coords[dims[j]])]),
                                    MaxNaN)} : dims \in DimOrders}

\* the ERSST v5 dataset: one variable, sst
ErsstDatasets ==
  UNION {{Dataset([k \in {"sst"} |-> v], coords, {<<"title", "ERSST">>}) :
            v \in GridVariables(coords)} : coords \in Grids}

\* xr.tutorial.load_dataset(name): download and open the named dataset
load_dataset(a, name) == IF name \in DOMAIN a THEN a[name] ELSE KeyError

----------------------------------------------------------------------------
(* The kernel session.                                                     *)

Names ==
  {"np", "xr", "plt", "ds", "sst", "sst_kelvin", "f",
   "da", "air_as_dictionary", "data", "lat", "lon", "temp",
   "tree", "reanalysis", "observed"}

Unbound == [type |-> "unbound"]
Module(name) == [type |-> "module", name |-> name]
\* a displayed value no statement of this development looks into
Opaque(what) == [type |-> "opaque", what |-> what]
None == [type |-> "None"]

NoBind == [n \in {} |-> None]
\* what executing a cell does: the names it binds, the value it displays
Cell(bind, out) == [bind |-> bind, out |-> out]

(* basic-computation: the code cells, in document order *)

\* import numpy as np / import xarray as xr / import matplotlib.pyplot as plt
comp_imports(e) ==
  Cell([n \in {"np", "xr", "plt"} |->
              Module(CASE n = "np" -> "numpy" [] n = "xr" -> "xarray"
                       [] n = "plt" -> "matplotlib.pyplot")], None)

\* ds = xr.tutorial.load_dataset("ersstv5"); ds
comp_load(e, a) ==
  LET ds == load_dataset(a, "ersstv5")
  IN Cell([n \in {"ds"} |-> ds], ds)

\* ds.sst.isel(time=0).plot(vmin=-2, vmax=30);
comp_plot(e) == Cell(NoBind, None)

\* sst_kelvin = ds.sst + 273.15; sst_kelvin
comp_kelvin(e) ==
  LET sst_kelvin == Add(GetAttr(e["ds"], "sst"), KelvinOffset)
  IN Cell([n \in {"sst_kelvin"} |-> sst_kelvin], sst_kelvin)

\* f = 0.5 * np.log(sst_kelvin**2); f
comp_log(e) ==
  Cell([n \in {"f"} |-> Opaque("f")], Opaque("f"))

\* np.nan_to_num(ds.sst, nan=0)
comp_nan_to_num(e) ==
  Cell(NoBind, nan_to_num(GetAttr(e["ds"], "sst"), 0))

\* xr.apply_ufunc(np.nan_to_num, ds.sst, kwargs={"nan": 0})
comp_apply_ufunc(e) ==
  Cell(NoBind, apply_ufunc(GetAttr(e["ds"], "sst"), 0))

\* the reduction cell without its assignment sst = ds.sst
comp_mean_axis_NoAssign(e) == Cell(NoBind, MeanAxis(GetAttr(e["ds"], "sst"), 0))

\* sst = ds.sst; sst.mean(axis=0)
comp_mean_axis(e) ==
  LET sst == GetAttr(e["ds"], "sst")
  IN Cell([n \in {"sst"} |-> sst], MeanAxis(sst, 0))

\* sst.mean(dim="time")
comp_mean_dim(e) == Cell(NoBind, MeanDim(e["sst"], {"time"}))

\* sst.mean(["lat", "time"])
comp_mean_dims(e) == Cell(NoBind, MeanDim(e["sst"], {"lat", "time"}))

\* sst.mean()
comp_mean_all(e) == Cell(NoBind, MeanAll(e["sst"]))

CompCells == 11

\* the k-th code cell of basic-computation
CompCell(k, e, a) ==
  CASE k = 1 -> comp_imports(e)
    [] k = 2 -> comp_load(e, a)
    [] k = 3 -> comp_plot(e)
    [] k = 4 -> comp_kelvin(e)
    [] k = 5 -> comp_log(e)
    [] k = 6 -> comp_nan_to_num(e)
    [] k = 7 -> comp_apply_ufunc(e)
    [] k = 8 -> comp_mean_axis(e)
    [] k = 9 -> comp_mean_dim(e)
    [] k = 10 -> comp_mean_dims(e)
    [] k = 11 -> comp_mean_all(e)

\* the names the k-th code cell of basic-computation reads before binding them
CompReads(k) ==
  CASE k = 1 -> {}
    [] k = 2 -> {"xr"}
    [] k = 3 -> {"ds"}
    [] k = 4 -> {"ds"}
    [] k = 5 -> {"np", "sst_kelvin"}
    [] k = 6 -> {"np", "ds"}
    [] k = 7 -> {"xr", "np", "ds"}
    [] k = 8 -> {"ds"}
    [] k = 9 -> {"sst"}
    [] k = 10 -> {"sst"}
    [] k = 11 -> {"sst"}

(* data-structures: the code cells, in document order *)

\* variable names a served dataset may carry beside "air" that are also names
\* of built-in methods
ClashNames == {"mean"}

\* the air temperature dataset: the variable air(time, lat, lon)
AirDatasets ==
  UNION {{Dataset([k \in {"air"} \cup extra |->
                     GridVariable(<<"time", "lat", "lon">>, coords, {})],
                  coords, {<<"title", "NCEP">>}) :
            extra \in SUBSET ClashNames} : coords \in Grids}

\* the precipitation tree: two groups on different grids
PrecipitationTree == [type |-> "DataTree", children |-> {"observed", "reanalysis"}]

Str(v) == [type |-> "str", value |-> v]
Dict(v) == [type |-> "dict", value |-> v]

\* d[key] = value on a dict kept as a set of (key, value) pairs
SetKey(d, key, value) == {p \in d : p[1] # key} \cup {<<key, value>>}

\* import matplotlib.pyplot as plt / import numpy as np / import xarray as xr
struct_imports(e) == comp_imports(e)

\* ds = xr.tutorial.load_dataset("air_temperature"); ds
struct_load(e, a) ==
  LET ds == load_dataset(a, "air_temperature")
  IN Cell([n \in {"ds"} |-> ds], ds)

\* ds.air.mean(dim="time").plot(x="lon")
struct_plot_mean(e) == Cell(NoBind, Opaque("QuadMesh"))

\* ds["air"]
struct_getitem(e) == Cell(NoBind, GetItem(e["ds"], "air"))

\* ds.air
struct_getattr(e) == Cell(NoBind, GetAttr(e["ds"], "air"))

\* da = ds.air; da.name
struct_da(e) ==
  LET da == GetAttr(e["ds"], "air")
  IN Cell([n \in {"da"} |-> da], Str(da.name))

\* da.dims
struct_dims(e) == Cell(NoBind, [type |-> "tuple", value |-> e["da"].dims])

\* da.coords
struct_coords(e) == Cell(NoBind, [type |-> "Coordinates", value |-> e["da"].coords])

\* da.lon
struct_lon(e) == Cell(NoBind, GetAttr(e["da"], "lon"))

\* da.coords["lon"]
struct_coords_lon(e) == Cell(NoBind, CoordsGetItem(e["da"], "lon"))

\* da.attrs
struct_attrs(e) == Cell(NoBind, Dict(e["da"].attrs))

\* da.attrs["who_is_awesome"] = "xarray"; da.attrs
\* (da shares the variable of ds, so the dataset's variable sees the new key)
struct_set_attr(e) ==
  LET attrs == SetKey(e["da"].attrs, "who_is_awesome", "xarray")
  IN Cell([n \in {"da", "ds"} |->
             IF n = "da" THEN [e["da"] EXCEPT !.attrs = attrs]
             ELSE [e["ds"] EXCEPT !.data_vars[e["da"].name].attrs = attrs]],
          Dict(attrs))

\* da
struct_show_da(e) == Cell(NoBind, e["da"])

\* da.data
struct_data(e) == Cell(NoBind, Data(e["da"]))

\* type(da.data)
struct_type(e) == Cell(NoBind, [type |-> "type", name |-> Data(e["da"]).type])

\* def air_as_dictionary(): ...; data = air_as_dictionary()
struct_dictionary(e, a) ==
  LET ds == load_dataset(a, "air_temperature")
      data == [k \in {"lat", "lon", "attrs", "time", "air-temp"} |->
                 CASE k = "attrs" -> Dict(ds.attrs)
                   [] k = "air-temp" -> Data(GetItem(ds, "air"))
                   [] OTHER -> Data(GetItem(ds, k))]
  IN Cell([n \in {"air_as_dictionary", "data"} |->
             IF n = "data" THEN Dict(data) ELSE [type |-> "function", name |-> n]],
          None)

\* lat = ds.air.lat.data; lon = ds.air.lon.data; temp = ds.air.data
struct_numpy(e) ==
  LET air == GetAttr(e["ds"], "air")
  IN Cell([n \in {"lat", "lon", "temp"} |->
             IF n = "temp" THEN Data(air) ELSE Data(GetAttr(air, n))], None)

\* the cells whose displayed value no statement of this development looks
\* into: plots, label- and position-based selections, the numpy reduction
struct_display(what) == Cell(NoBind, IF what = "" THEN None ELSE Opaque(what))

\* ds
struct_show_ds(e) == Cell(NoBind, e["ds"])

\* tree = xr.tutorial.open_datatree('precipitation.nc4')
\* reanalysis = xr.Dataset(tree['observed']); observed = xr.Dataset(tree['reanalysis'])
struct_tree(e, a) ==
  LET tree == load_dataset(a, "precipitation.nc4")
  IN Cell([n \in {"tree", "reanalysis", "observed"} |->
             IF n = "tree" THEN tree ELSE Opaque("Dataset")], None)

StructCells == 31

\* the k-th code cell of data-structures (the three empty cells at the end
\* execute nothing)
StructCell(k, e, a) ==
  CASE k = 1 -> struct_imports(e)
    [] k = 2 -> struct_load(e, a)
    [] k = 3 -> struct_plot_mean(e)
    [] k = 4 -> struct_getitem(e)
    [] k = 5 -> struct_getattr(e)
    [] k = 6 -> struct_da(e)
    [] k = 7 -> struct_dims(e)
    [] k = 8 -> struct_coords(e)
    [] k = 9 -> struct_lon(e)
    [] k = 10 -> struct_coords_lon(e)
    [] k = 11 -> struct_attrs(e)
    [] k = 12 -> struct_set_attr(e)
    [] k = 13 -> struct_show_da(e)
    [] k = 14 -> struct_data(e)
    [] k = 15 -> struct_type(e)
    [] k = 16 -> struct_dictionary(e, a)
    [] k = 17 -> struct_numpy(e)
    [] k = 18 -> struct_display("")
    [] k = 19 -> struct_display("ndarray")
    [] k = 20 -> struct_display("")
    [] k = 21 -> struct_display("QuadMesh")
    [] k = 22 -> struct_show_ds(e)
    [] k \in 23..27 -> struct_display("Dataset")
    [] k = 28 -> struct_display("float")
    [] k \in 29..30 -> struct_display("DataArray")
    [] k = 31 -> struct_tree(e, a)

\* the names the k-th code cell of data-structures reads before binding them
StructReads(k) ==
  CASE k = 1 -> {}
    [] k = 2 -> {"xr"}
    [] k \in 3..6 -> {"ds"}
    [] k \in 7..15 -> {"da"}
    [] k = 16 -> {"xr"}
    [] k = 17 -> {"ds"}
    [] k = 18 -> {"plt", "lon", "lat", "temp"}
    [] k = 19 -> {"temp"}
    [] k \in 20..30 -> {"ds"}
    [] k = 31 -> {"xr"}

Notebooks == {"computation", "structures"}

NumCells(n) == IF n = "computation" THEN CompCells ELSE StructCells
Reads(n, k) == IF n = "computation" THEN CompReads(k) ELSE StructReads(k)
RunCell(n, k, e, a) ==
  IF n = "computation" THEN CompCell(k, e, a) ELSE StructCell(k, e, a)

\* what the archive may serve to a session of notebook n
Archives(n) ==
  IF n = "computation" THEN [{"ersstv5"} -> ErsstDatasets]
  ELSE {[k \in {"air_temperature", "precipitation.nc4"} |->
           IF k = "air_temperature" THEN d ELSE PrecipitationTree] :
          d \in AirDatasets}

Bound(e) == {n \in Names : e[n].type # "unbound"}

\* a fresh kernel: nothing bound, nothing displayed
InitNB ==
  /\ nb \in Notebooks
  /\ archive \in Archives(nb)
  /\ pc = 1
  /\ env = [n \in Names |-> Unbound]
  /\ Out = <<>>
  /\ err = "none"

\* execute the next code cell: a name read while unbound raises NameError and
\* stops the session; otherwise the cell's bindings and output take effect
ExecuteCell ==
  /\ err = "none"
  /\ pc <= NumCells(nb)
  /\ IF Reads(nb, pc) \subseteq Bound(env)
     THEN LET c == RunCell(nb, pc, env, archive)
          IN /\ env' = [n \in Names |-> IF n \in DOMAIN c.bind THEN c.bind[n] ELSE env[n]]
             /\ Out' = Append(Out, c.out)
             /\ pc' = pc + 1
             /\ err' = err
     ELSE /\ err' = "NameError"
          /\ UNCHANGED <<env, Out, pc>>
  /\ UNCHANGED <<archive, nb, civars>>

----------------------------------------------------------------------------
(* The "Pull Request Build" workflow.                                      *)

WorkflowName == "Pull Request Build"

\* on.pull_request.types
EventTypes == {"opened", "synchronize", "reopened", "closed"}

\* github.ref of a pull_request event: the merge ref of the pull request
Refs == {"refs/pull/1/merge", "refs/pull/2/merge"}

\* what a push to a pull request may touch
ChangedPaths ==
  {{".devcontainer/devcontainer.json"},
   {"fundamentals/02.3_aligning_data_objects.ipynb"},
   {".devcontainer/devcontainer.json", "fundamentals/02.3_aligning_data_objects.ipynb"}}

\* paths-ignore: ".devcontainer/**"
Ignored(path) == path = ".devcontainer/devcontainer.json"

\* on.pull_request: the event starts a run unless every changed path is ignored
Triggers(type, paths) == type \in EventTypes /\ \E p \in paths : ~Ignored(p)

\* a concurrency group that leaves out the ref: one group for the workflow
ConcurrencyGroup_WorkflowOnly(r) == <<WorkflowName>>

\* concurrency.group: ${{ github.workflow }}-${{ github.ref }}
ConcurrencyGroup(r) == <<WorkflowName, r.ref>>

\* concurrency.cancel-in-progress
CancelInProgress == TRUE

\* jobs.preview.steps: the name of each step, whether it carries
\* "if: github.event.action != 'closed'", and whether it is a local action
\* (one read from the checked-out workspace)
Steps ==
  << [name |-> "Checkout repository", not_closed |-> TRUE, local |-> FALSE],
     [name |-> "Setup JupyterBook Cache", not_closed |-> TRUE, local |-> FALSE],
     [name |-> "./.github/actions/setup-pixi", not_closed |-> FALSE, local |-> TRUE],
     [name |-> "Build JupyterBook", not_closed |-> TRUE, local |-> FALSE],
     [name |-> "Dump Build Logs", not_closed |-> TRUE, local |-> FALSE],
     [name |-> "Upload artifact", not_closed |-> TRUE, local |-> FALSE] >>

Concluded(r, name, how) ==
  \E k \in 1..Len(r.log) : r.log[k].name = name /\ r.log[k].conclusion = how

\* success(): no earlier step of the job has failed
Success(r) == \A k \in 1..Len(r.log) : r.log[k].conclusion # "failure"

\* a step condition evaluated without the implied success()
StepIf_NoStatusCheck(r, step) == step.not_closed => r.action # "closed"

\* the step's if: none of the conditions names a status function, so each
\* is evaluated as success() && (condition)
StepIf(r, step) == Success(r) /\ (step.not_closed => r.action # "closed")

\* how an executed step can end: a local action is found only in a
\* workspace that the checkout step has filled
Conclusions(r, step) ==
  IF step.local /\ ~Concluded(r, "Checkout repository", "success")
  THEN {"failure"} ELSE {"success", "failure"}

\* a job that has gone through its steps fails when a step has failed
JobConclusion(log) ==
  IF \E k \in 1..Len(log) : log[k].conclusion = "failure" THEN "failure" ELSE "success"

\* the effect on run r of a run q being queued: in the same group a pending
\* run is replaced, a run in progress is cancelled if cancel-in-progress
Superseded(r, q) ==
  IF ConcurrencyGroup(r) = ConcurrencyGroup(q)
     /\ \/ r.status = "pending"
        \/ r.status = "in_progress" /\ CancelInProgress
  THEN [r EXCEPT !.status = "cancelled"] ELSE r

\* the order of pull_request activity on one pull request
NextPullState(state, type) ==
  CASE state = "none" /\ type = "opened" -> "open"
    [] state = "open" /\ type = "synchronize" -> "open"
    [] state = "open" /\ type = "closed" -> "closed"
    [] state = "closed" /\ type = "reopened" -> "open"
    [] OTHER -> "invalid"

InitCI ==
  /\ runs = <<>>
  /\ pulls = [ref \in Refs |-> "none"]
  /\ delivered = 0

\* a pull_request event is delivered; if it triggers the workflow a run is
\* queued in its concurrency group
PullRequestEvent(ref, type, paths) ==
  /\ delivered < MaxEvents
  /\ delivered' = delivered + 1
  /\ NextPullState(pulls[ref], type) # "invalid"
  /\ pulls' = [pulls EXCEPT ![ref] = NextPullState(pulls[ref], type)]
  /\ IF Triggers(type, paths)
     THEN LET q == [ref |-> ref, action |-> type, status |-> "pending", log |-> <<>>]
          IN runs' = Append([i \in 1..Len(runs) |-> Superseded(runs[i], q)], q)
     ELSE runs' = runs
  /\ UNCHANGED nbvars

\* a pending run starts once no run of its group is in progress
StartRun(i) ==
  /\ runs[i].status = "pending"
  /\ \A j \in 1..Len(runs) :
       runs[j].status = "in_progress" =>
         ConcurrencyGroup(runs[j]) # ConcurrencyGroup(runs[i])
  /\ runs' = [runs EXCEPT ![i].status = "in_progress"]
  /\ UNCHANGED <<pulls, delivered, nbvars>>

\* the runner takes the job's next step: skips it if its condition is false,
\* runs it otherwise; after the last step the job is concluded
RunStep(i) ==
  /\ runs[i].status = "in_progress"
  /\ LET r == runs[i]
         step == Steps[Len(r.log) + 1]
     IN \E c \in (IF StepIf(r, step) THEN Conclusions(r, step) ELSE {"skipped"}) :
          LET log == Append(r.log, [name |-> step.name, conclusion |-> c])
          IN runs' = [runs EXCEPT ![i].log = log,
                                  ![i].status = IF Len(log) = Len(Steps)
                                                THEN JobConclusion(log)
                                                ELSE "in_progress"]
  /\ UNCHANGED <<pulls, delivered, nbvars>>

NextCI ==
  \/ \E ref \in Refs, type \in EventTypes, paths \in ChangedPaths :
       PullRequestEvent(ref, type, paths)
  \/ \E i \in 1..Len(runs) : StartRun(i)
  \/ \E i \in 1..Len(runs) : RunStep(i)

Init == InitNB /\ InitCI
Next == ExecuteCell
Spec == Init /\ [][Next]_vars

\* the workflow alone: no run yet, and a notebook session left at its start
InitWorkflow ==
  /\ runs = <<>>
  /\ pulls = [ref \in Refs |-> "none"]
  /\ delivered = 0
  /\ nb = "computation"
  /\ archive = CHOOSE a \in Archives("computation") : TRUE
  /\ pc = 1
  /\ env = [n \in Names |-> Unbound]
  /\ Out = <<>>
  /\ err = "none"
SpecCI == InitWorkflow /\ [][NextCI]_vars

----------------------------------------------------------------------------
(* Properties of the notebook sessions.                                    *)

\* the sea surface temperature array as the archive serves it
ServedSst == GetItem(archive["ersstv5"], "sst")
HasNaN(da) == \E i \in DOMAIN da.values : da.values[i].nan
HasNumber(da) == \E i \in DOMAIN da.values : ~da.values[i].nan
Without(dims, rdims) == SelectSeq(dims, LAMBDA d : d \notin rdims)

\* C4: adding a scalar to a labelled array (sst_kelvin = ds.sst + 273.15)
\* keeps the dimension names and their order and the coordinate values of
\* every dimension, gives at every position the input's value plus the
\* scalar, and leaves the input ds.sst unchanged.
C4_AddPreservesLabels ==
  (nb = "computation" /\ pc > 4) =>
    LET k == env["sst_kelvin"]
    IN /\ k.type = "DataArray"
       /\ k.dims = ServedSst.dims
       /\ k.coords = ServedSst.coords
       /\ DOMAIN k.values = DOMAIN ServedSst.values
       /\ \A i \in DOMAIN ServedSst.values :
            IF ServedSst.values[i].nan THEN k.values[i].nan
            ELSE k.values[i] = Num(ServedSst.values[i].val + KelvinOffset)
       /\ Out[4] = k
       /\ env["ds"] = archive["ersstv5"]
       /\ GetItem(env["ds"], "sst") = ServedSst

C4_Witness ==
  /\ nb = "computation" /\ pc > 4
  /\ HasNaN(ServedSst) /\ HasNumber(ServedSst)
  /\ Len(ServedSst.coords["time"]) = MaxLen

\* the result r of reducing da over the dimensions rdims has exactly the
\* other dimensions, in da's order, with da's coordinates and extents
ReducedExactly(r, da, rdims) ==
  /\ r.type = "DataArray"
  /\ r.dims = Without(da.dims, rdims)
  /\ DOMAIN r.coords = Range(da.dims) \ rdims
  /\ \A d \in DOMAIN r.coords : r.coords[d] = da.coords[d]
  /\ DOMAIN r.values = Index([j \in 1..Len(r.dims) |-> Len(da.coords[r.dims[j]])])

\* C5: a reduction by dimension name removes exactly the named dimensions:
\* of a (time, lat, lon) array, mean(dim="time") has dimensions (lat, lon),
\* mean(["lat", "time"]) has (lon) only, mean() has none; the dimensions not
\* reduced keep their order and coordinates.
C5_ReductionRemovesNamedDims ==
  (nb = "computation" /\ pc > CompCells) =>
    /\ ReducedExactly(Out[9], ServedSst, {"time"})
    /\ ReducedExactly(Out[10], ServedSst, {"lat", "time"})
    /\ ReducedExactly(Out[11], ServedSst, {"time", "lat", "lon"})
    /\ Out[9].dims = <<"lat", "lon">>
    /\ Out[10].dims = <<"lon">>
    /\ Out[11].dims = <<>>

C5_Witness ==
  /\ nb = "computation" /\ pc > CompCells
  /\ ServedSst.dims = <<"time", "lat", "lon">>
  /\ \A d \in DimNames : Len(ServedSst.coords[d]) = MaxLen

\* C6: for an array whose first dimension is time, mean(axis=0) and
\* mean(dim="time") give the same result: dimensions, coordinates, values.
C6_AxisAndDimAgree ==
  (nb = "computation" /\ pc > 9 /\ ServedSst.dims[1] = "time") => Out[8] = Out[9]

C6_Witness ==
  /\ nb = "computation" /\ pc > 9
  /\ ServedSst.dims[1] = "time"
  /\ HasNaN(ServedSst)
  /\ \A d \in DimNames : Len(ServedSst.coords[d]) = MaxLen

C8_AttributeAccessAgrees ==
  (nb = "structures" /\ pc > 10) =>
    LET ds == archive["air_temperature"]
        da == GetItem(ds, "air")
    IN /\ Out[4].type = "DataArray" /\ Out[4].name = "air"
       /\ Out[5] = Out[4]
       /\ Out[9].type = "DataArray" /\ Out[9].name = "lon"
       /\ Out[10] = Out[9]
       /\ \A n \in (DOMAIN ds.data_vars) \cup (DOMAIN ds.coords) :
            /\ GetItem(ds, n).type = "DataArray"
            /\ IF n \in BuiltinNames
               THEN GetAttr(ds, n).type # "DataArray"
               ELSE GetAttr(ds, n) = GetItem(ds, n)
       /\ \A n \in DOMAIN da.coords :
            GetAttr(da, n) = CoordsGetItem(da, n)

C8_Witness ==
  /\ nb = "structures" /\ pc > 10
  /\ "mean" \in DOMAIN archive["air_temperature"].data_vars
  /\ Len(archive["air_temperature"].coords["lon"]) = MaxLen

\* C9: with the cells executed in document order in one session, every name
\* a code cell reads has been bound by that cell or an earlier one: no cell
\* stops on an unbound name.
C9_NamesBoundBeforeRead ==
  /\ err # "NameError"
  /\ pc <= NumCells(nb) => Reads(nb, pc) \subseteq Bound(env)

C9_Witness == nb = "computation" /\ pc > CompCells /\ err = "none"

----------------------------------------------------------------------------
(* Properties of the workflow.                                             *)

InProgress(i) == runs[i].status = "in_progress"

\* no two runs of one ref are in progress together
OneInProgressPerRef ==
  \A i, j \in 1..Len(runs) :
    (i # j /\ InProgress(i) /\ InProgress(j)) => runs[i].ref # runs[j].ref

\* a step that queues a run cancels the run in progress on the same ref, and
\* a run is cancelled by no other step
CancelledBySameRefOnly ==
  /\ Len(runs') > Len(runs) =>
       \A i \in 1..Len(runs) :
         (InProgress(i) /\ runs[i].ref = runs'[Len(runs')].ref)
           => runs'[i].status = "cancelled"
  /\ \A i \in 1..Len(runs) :
       (runs[i].status # "cancelled" /\ runs'[i].status = "cancelled")
         => /\ Len(runs') = Len(runs) + 1
            /\ runs'[Len(runs')].ref = runs[i].ref

\* C2: builds never overlap on one ref: at most one run per concurrency
\* group (workflow name + github.ref) is in progress at any time; a new run
\* of the group cancels the run in progress; runs of different refs do not
\* cancel each other.
C2_NoOverlappingBuilds == []OneInProgressPerRef /\ [][CancelledBySameRefOnly]_vars

C2_Witness ==
  \E i, j \in 1..Len(runs) :
    /\ i < j
    /\ runs[i].ref = runs[j].ref
    /\ runs[i].status = "cancelled" /\ runs[i].log # <<>>
    /\ InProgress(j)

Ran(r, name) == Concluded(r, name, "success") \/ Concluded(r, name, "failure")

\* the step named later ran only after the step named earlier ended in success
OnlyAfterSuccessOf(r, later, earlier) ==
  \A k \in 1..Len(r.log) :
    (r.log[k].name = later /\ r.log[k].conclusion # "skipped")
      => \E h \in 1..(k - 1) :
           r.log[h].name = earlier /\ r.log[h].conclusion = "success"

NoUploadWithoutBuild ==
  \A i \in 1..Len(runs) :
    /\ OnlyAfterSuccessOf(runs[i], "Upload artifact", "Build JupyterBook")
    /\ OnlyAfterSuccessOf(runs[i], "Dump Build Logs", "Build JupyterBook")
    /\ Concluded(runs[i], "Build JupyterBook", "failure")
         => ~Ran(runs[i], "Upload artifact")

\* C3 as stated: a failure of the build step always ends as a failed job,
\* and the upload and dump steps run only after a successful build step.
C3_AsStated ==
  /\ NoUploadWithoutBuild
  /\ \A i \in 1..Len(runs) :
       (Concluded(runs[i], "Build JupyterBook", "failure")
          /\ runs[i].status \notin {"pending", "in_progress"})
         => runs[i].status = "failure"

\* C3: a failure of the build step is never followed by an artifact upload;
\* the upload and dump steps run only in a run whose build step ran and
\* succeeded, and after it; the job of a failed build never succeeds: it
\* ends failed once it has gone through its steps, unless a newer run of
\* the same ref cancels the run first, and then the run ends cancelled.
C3_BuildFailureIsSurfaced ==
  /\ NoUploadWithoutBuild
  /\ \A i \in 1..Len(runs) :
       Concluded(runs[i], "Build JupyterBook", "failure") =>
         \/ runs[i].status = "failure"
         \/ InProgress(i) /\ Len(runs[i].log) < Len(Steps)
         \/ /\ runs[i].status = "cancelled"
            /\ \E j \in (i + 1)..Len(runs) : runs[j].ref = runs[i].ref

C3_Witness ==
  \E i, j \in 1..Len(runs) :
    /\ Concluded(runs[i], "Build JupyterBook", "failure")
    /\ runs[i].status = "failure"
    /\ Concluded(runs[i], "Upload artifact", "skipped")
    /\ Concluded(runs[j], "Upload artifact", "success")
    /\ runs[j].status = "success"

====
